---- MODULE Spec2Model ----
(***************************************************************************)
(* A model of onnxruntime/python/tools/transformers/gpt2_helper.py: the    *)
(* input synthesizer (Gpt2Helper.get_dummy_inputs), the buffer manager     *)
(* (get_output_buffers, auto_increase_buffer_size,                         *)
(* get_outputs_from_io_binding_buffer), the bound-buffer runner            *)
(* (prepare_io_binding, onnxruntime_inference_with_binded_io), the output  *)
(* comparator (compare_outputs), the parity trial loop (test_parity), the  *)
(* model wrappers (post_process, forward), get_output_shapes and the       *)
(* export driver (export_onnx).                                            *)
(*                                                                         *)
(* Each component has its own specification over its own variables:        *)
(*   SpecSynth   get_dummy_inputs                                          *)
(*   SpecBuf     the buffer manager and the bound-buffer runner            *)
(*   SpecCmp     compare_outputs                                           *)
(*   SpecParity  test_parity                                               *)
(*   SpecBind    prepare_io_binding called on its own                      *)
(*   SpecShapes  get_output_shapes                                         *)
(*   SpecForward the forward call of the model wrappers                    *)
(*   SpecExport  export_onnx                                               *)
(* Tensor elements are integers; a tolerance is an integer as well.        *)
(***************************************************************************)
EXTENDS Integers, Sequences, FiniteSets, TLC

VARIABLES
    \* ---- get_dummy_inputs
    di_status,      \* "init" | "returned" | "AttributeError"
    di_args,        \* the arguments of the last call
    dummy_inputs,   \* the Gpt2Inputs returned by the last call
    randint_range,  \* the set torch.randint drew the entries of input_ids from
    \* ---- compare_outputs
    cmp_status,     \* "init" | "returned"
    torch_outputs,  \* the reference: <<primary, <<layer 0, layer 1, ...>>>>
    ort_outputs,    \* the candidate: <<primary, present_0, present_1, ...>>
    tolerance,      \* [rtol, atol]
    is_all_close,   \* the value compare_outputs returned
    max_abs_diff,   \* the difference it logged, None when it logged none
    \* ---- the buffer manager and the bound-buffer runner
    bm_status,      \* "init" | "ok" | "AssertionError" | "RuntimeError" | "crash"
    storage,        \* the tensor storages in memory: a sequence of flat arrays
    output_buffers, \* None, or output name -> 1-D tensor [ptr, numel, shape]
    io_binding,     \* None, or what the last bound run bound: name -> [shape, ptr]
    held_outputs,   \* None, or a list of tensors a call returned and the caller holds
    held_values,    \* the elements of held_outputs when they were returned
    held_fresh,     \* held_outputs was returned by the last call
    seen_max,       \* name -> the largest element count asked of the buffer so far
    prev_numel,     \* name -> the buffer's element count before the last call
    replaced,       \* name -> the last call put a new tensor under the name
    \* ---- test_parity
    tp_pc,          \* "init" | "loop" | "done" | "raised"
    tp_args,        \* the arguments of the session
    tp_trials,      \* the iterations of the loop that have completed
    passed_test_cases,
    tp_verdicts,    \* what compare_outputs returned, trial by trial
    tp_runner,      \* the candidate runner the last trial called: "none" | "value" | "bound"
    tp_error,       \* the exception that ended the session, "none" without one
    tp_logged_good, \* "Parity is good" was logged
    tp_result,      \* None, or <<the boolean returned>>
    \* ---- prepare_io_binding, the inputs
    pb_status,      \* "init" | "bound" | "AssertionError" | "TypeError" | "KeyError"
    pb_args,        \* the dimensions and flags of the batch, and the output buffers
    pb_inputs,      \* the tensors passed: each [shape, dtype, ptr, contiguous]
    pb_binding,     \* the bind_input calls made, in order: [name, dtype, shape, ptr]
    \* ---- get_output_shapes
    os_status,      \* "init" | "returned"
    os_args,        \* the arguments of the last call
    output_shapes,  \* None, or the dictionary returned: output name -> shape
    \* ---- the forward call of the model wrappers
    fw_status,      \* "init" | "returned" | "AssertionError"
    fw_args,        \* the model class, its n_layer and what the wrapped model returned
    fw_result,      \* None, or what forward returned
    \* ---- export_onnx
    ex_status,      \* "init" | "exported" | "AssertionError" | "AttributeError" |
                    \* "TypeError" | "IndexError"
    ex_args,        \* the model and the flags of the last call
    ex_outputs,     \* None, or what the forward pass of line 290 returned
    ex_decl,        \* None, or [input_names, output_names, dynamic_axes] as built
    ex_exports,     \* the calls of torch.onnx.export the last call made
    ex_file         \* the graph file has been written

synthVars == <<di_status, di_args, dummy_inputs, randint_range>>
cmpVars == <<cmp_status, torch_outputs, ort_outputs, tolerance, is_all_close, max_abs_diff>>
bufVars == <<bm_status, storage, output_buffers, io_binding, held_outputs, held_values,
             held_fresh, seen_max, prev_numel, replaced>>

parityVars == <<tp_pc, tp_args, tp_trials, passed_test_cases, tp_verdicts, tp_runner,
                tp_error, tp_logged_good, tp_result>>

bindVars == <<pb_status, pb_args, pb_inputs, pb_binding>>
shapeVars == <<os_status, os_args, output_shapes>>
fwdVars == <<fw_status, fw_args, fw_result>>
exportVars == <<ex_status, ex_args, ex_outputs, ex_decl, ex_exports, ex_file>>

vars == <<synthVars, cmpVars, bufVars, parityVars, bindVars, shapeVars, fwdVars, exportVars>>

notSynth == <<cmpVars, bufVars, parityVars, bindVars, shapeVars, fwdVars, exportVars>>
notCmp == <<synthVars, bufVars, parityVars, bindVars, shapeVars, fwdVars, exportVars>>
notBuf == <<synthVars, cmpVars, parityVars, bindVars, shapeVars, fwdVars, exportVars>>
notBind == <<synthVars, cmpVars, bufVars, parityVars, shapeVars, fwdVars, exportVars>>
notShape == <<synthVars, cmpVars, bufVars, parityVars, bindVars, fwdVars, exportVars>>
notFwd == <<synthVars, cmpVars, bufVars, parityVars, bindVars, shapeVars, exportVars>>
notExport == <<synthVars, cmpVars, bufVars, parityVars, bindVars, shapeVars, fwdVars>>

\* Python's None. Every tensor of the model has at least one row, so the
\* empty tuple is free to stand for it.
None == <<>>

(***************************************************************************)
(* Bounds of the model.                                                    *)
(***************************************************************************)
MaxBatch == 2
MaxPast == 2
MaxVocab == 3
MaxLayers == 1
MaxGrow == 3
MaxTrials == 2

\* The limits test_parity draws the dimensions of a trial within;
\* get_dummy_inputs is exercised with the same sequence lengths.
max_batch_size == 8
max_past_seq_len == 4
max_seq_len == 2

\* The GPT2Config of the model under test (num_hidden_layers is n_layer).
Config == [num_attention_heads |-> 2, hidden_size |-> 4, n_layer |-> 2, vocab_size |-> 50]

\* MODEL_CLASSES, lines 106-110: the name of the first output and whether
\* the model takes position_ids and attention_mask.
MODEL_CLASSES ==
    [GPT2LMHeadModel |-> [output_name |-> "logits", padding |-> TRUE],
     GPT2LMHeadModel_NoPadding |-> [output_name |-> "logits", padding |-> FALSE],
     GPT2Model |-> [output_name |-> "last_state", padding |-> TRUE]]

\* The model classes registered, the keys of MODEL_CLASSES.
ModelClassNames == {"GPT2LMHeadModel", "GPT2LMHeadModel_NoPadding", "GPT2Model"}

(***************************************************************************)
(* Library functions, by what they do.                                     *)
(***************************************************************************)

\* torch.randint(low, high): integers in [low, high), high exclusive.
TorchRandint(low, high) == low .. (high - 1)

\* random.randint(a, b): integers in [a, b], both ends included.
RandomRandint(a, b) == a .. b

\* numpy.prod of a shape (a list of ints).
RECURSIVE Prod(_)
Prod(shape) == IF shape = <<>> THEN 1 ELSE Head(shape) * Prod(Tail(shape))

\* tensor.cumsum(-1) of one row.
RECURSIVE Cumsum(_)
Cumsum(row) ==
    IF row = <<>> THEN <<>>
    ELSE LET front == Cumsum(SubSeq(row, 1, Len(row) - 1))
         IN  Append(front, (IF front = <<>> THEN 0 ELSE front[Len(front)]) + row[Len(row)])

(***************************************************************************)
(* Gpt2Helper.get_dummy_inputs                                             *)
(***************************************************************************)

\* past_shape, line 155.
PastShape(batch_size, past_sequence_length) ==
    <<2, batch_size, Config.num_attention_heads, past_sequence_length,
      Config.hidden_size \div Config.num_attention_heads>>

\* A mutant of AttentionMask: the padding column is zeroed in row 0 only.
AttentionMask_FirstRowOnly(batch_size, total_sequence_length, padding_position) ==
    [b \in 1 .. batch_size |->
        [c \in 1 .. total_sequence_length |->
            IF total_sequence_length >= 2 /\ c = padding_position + 1 /\ b = 1
            THEN 0 ELSE 1]]

\* Lines 167-170: all ones, then column padding_position (0-based) zeroed in
\* every row when total_sequence_length >= 2.
AttentionMask(batch_size, total_sequence_length, padding_position) ==
    [b \in 1 .. batch_size |->
        [c \in 1 .. total_sequence_length |->
            IF total_sequence_length >= 2 /\ c = padding_position + 1
            THEN 0 ELSE 1]]

\* A mutant of PositionIds: masked_fill_ is left out.
PositionIds_NoClamp(attention_mask, past_sequence_length) ==
    [b \in 1 .. Len(attention_mask) |->
        LET cs == Cumsum(attention_mask[b])
        IN  [t \in 1 .. (Len(cs) - past_sequence_length) |->
                cs[past_sequence_length + t] - 1]]

\* Lines 175-177: cumsum(-1) - 1, negative entries filled with 0, then the
\* first past_sequence_length columns dropped.
PositionIds(attention_mask, past_sequence_length) ==
    [b \in 1 .. Len(attention_mask) |->
        LET cs      == Cumsum(attention_mask[b])
            minus1  == [c \in 1 .. Len(cs) |-> cs[c] - 1]
            filled  == [c \in 1 .. Len(cs) |-> IF minus1[c] < 0 THEN 0 ELSE minus1[c]]
        IN  SubSeq(filled, past_sequence_length + 1, Len(filled))]

\* No call in progress: the arguments hold placeholders.
NoArgs == [batch_size |-> 1, past_sequence_length |-> 0, sequence_length |-> 1,
           vocab_size |-> 2, has_position_ids |-> FALSE, has_attention_mask |-> FALSE]

\* Line 175 calls attention_mask.long(): with position_ids asked for and no
\* attention mask it is called on None and raises AttributeError.
DummyInputsRaises(has_position_ids, has_attention_mask) ==
    has_position_ids /\ ~has_attention_mask

NoInputs == [input_ids |-> None, position_ids |-> None, attention_mask |-> None, past |-> None]

\* One call of get_dummy_inputs. The draws are torch.randint for input_ids
\* and random.randint for the padding column. With has_position_ids and no
\* attention mask, line 175 calls .long() on None and raises AttributeError.
\* The mask holds 1.0 and 0.0 of the float type asked for, kept as 1 and 0;
\* of the cache tensors only the shape is kept.
GetDummyInputs ==
    /\ di_status = "init"
    /\ \E batch_size \in 1 .. MaxBatch, past_sequence_length \in 0 .. MaxPast,
       sequence_length \in 1 .. max_seq_len, vocab_size \in 2 .. MaxVocab,
       has_position_ids \in BOOLEAN, has_attention_mask \in BOOLEAN :
      LET total_sequence_length == past_sequence_length + sequence_length
          range == TorchRandint(0, vocab_size - 1)
          pads  == IF has_attention_mask /\ total_sequence_length >= 2
                   THEN RandomRandint(0, total_sequence_length - 1) ELSE {0}
      IN
      \E input_ids \in [1 .. batch_size -> [1 .. sequence_length -> range]],
         padding_position \in pads :
        LET attention_mask ==
                IF has_attention_mask
                THEN AttentionMask(batch_size, total_sequence_length, padding_position)
                ELSE None
            past == [i \in 1 .. Config.n_layer |->
                        [shape |-> PastShape(batch_size, past_sequence_length)]]
        IN
        /\ di_args' = [batch_size |-> batch_size,
                       past_sequence_length |-> past_sequence_length,
                       sequence_length |-> sequence_length,
                       vocab_size |-> vocab_size,
                       has_position_ids |-> has_position_ids,
                       has_attention_mask |-> has_attention_mask]
        /\ randint_range' = range
        /\ UNCHANGED notSynth
        /\ IF DummyInputsRaises(has_position_ids, has_attention_mask)
           THEN /\ di_status' = "AttributeError"
                /\ dummy_inputs' = NoInputs
           ELSE /\ di_status' = "returned"
                /\ dummy_inputs' =
                     [input_ids |-> input_ids,
                      position_ids |->
                         IF has_position_ids
                         THEN PositionIds(attention_mask, past_sequence_length)
                         ELSE None,
                      attention_mask |-> attention_mask,
                      past |-> past]

IdleSynth ==
    /\ di_status = "init"
    /\ di_args = NoArgs
    /\ dummy_inputs = NoInputs
    /\ randint_range = {}

\* The comparator's variables while no comparison is modelled.
IdleCmp ==
    /\ cmp_status = "init"
    /\ torch_outputs = None
    /\ ort_outputs = None
    /\ tolerance = [rtol |-> 0, atol |-> 0]
    /\ is_all_close = FALSE
    /\ max_abs_diff = None

\* The buffer manager's variables before any buffer exists.
IdleBuf ==
    /\ bm_status = "init"
    /\ storage = <<>>
    /\ output_buffers = None
    /\ io_binding = None
    /\ held_outputs = None
    /\ held_values = None
    /\ held_fresh = FALSE
    /\ seen_max = None
    /\ prev_numel = None
    /\ replaced = None

\* The parity loop's variables before a session starts.
IdleParity ==
    /\ tp_pc = "init"
    /\ tp_args = [total_test_cases |-> 0, use_io_binding |-> TRUE, atol |-> 0,
                  has_position_ids |-> TRUE, has_attention_mask |-> TRUE]
    /\ tp_trials = 0
    /\ passed_test_cases = 0
    /\ tp_verdicts = <<>>
    /\ tp_runner = "none"
    /\ tp_error = "none"
    /\ tp_logged_good = FALSE
    /\ tp_result = None

\* No call of prepare_io_binding yet.
IdleBind ==
    /\ pb_status = "init"
    /\ pb_args = None
    /\ pb_inputs = None
    /\ pb_binding = <<>>

\* No call of get_output_shapes yet.
IdleShapes ==
    /\ os_status = "init"
    /\ os_args = None
    /\ output_shapes = None

\* No forward call yet.
IdleFwd ==
    /\ fw_status = "init"
    /\ fw_args = None
    /\ fw_result = None

\* No call of export_onnx yet: nothing exported, no file.
IdleExport ==
    /\ ex_status = "init"
    /\ ex_args = None
    /\ ex_outputs = None
    /\ ex_decl = None
    /\ ex_exports = 0
    /\ ex_file = FALSE

\* Before any call: no batch, no outputs, no buffers, no session.
Init ==
    IdleSynth /\ IdleCmp /\ IdleBuf /\ IdleParity /\ IdleBind /\ IdleShapes /\ IdleFwd
    /\ IdleExport

\* The caller drops the batch: an InputBatch lives for one trial.
DiscardInputs ==
    /\ di_status # "init"
    /\ di_status' = "init"
    /\ dummy_inputs' = NoInputs
    /\ randint_range' = {}
    /\ di_args' = NoArgs
    /\ UNCHANGED notSynth

NextSynth == GetDummyInputs \/ DiscardInputs

SpecSynth == Init /\ [][NextSynth]_vars

(***************************************************************************)
(* Gpt2Helper.compare_outputs and Gpt2Helper.diff_outputs                  *)
(***************************************************************************)

\* The element values and the tolerances of the comparator's inputs, and
\* the positions of a tensor (a tensor is held flat).
Vals == {-1, 0, 1}
Tols == {0, 1}
Elems == {1, 2}

Abs(x) == IF x < 0 THEN -x ELSE x

\* A mutant of AllClose: the relative term is taken of a, not of b.
AllClose_RelativeToFirst(a, b, rtol, atol) ==
    \A i \in DOMAIN a : Abs(a[i] - b[i]) <= atol + rtol * Abs(a[i])

\* numpy.allclose(a, b, rtol, atol) on finite values:
\* every |a - b| <= atol + rtol * |b|.
AllClose(a, b, rtol, atol) ==
    \A i \in DOMAIN a : Abs(a[i] - b[i]) <= atol + rtol * Abs(b[i])

\* numpy.amax of a flat non-empty array.
Amax(a) == CHOOSE x \in {a[i] : i \in DOMAIN a} : \A i \in DOMAIN a : a[i] <= x

\* diff_outputs with relative=False, lines 233-238: the largest absolute
\* difference of the primary outputs.
DiffOutputs(t_outputs, o_outputs) ==
    LET expected_outputs == t_outputs[1]
        diff == [i \in DOMAIN expected_outputs |-> Abs(expected_outputs[i] - o_outputs[1][i])]
    IN  Amax(diff)

\* The loop of lines 250-256 from layer (0-based) on, is_all_close so far
\* being acc.
RECURSIVE LayerLoop(_, _, _, _, _, _)
LayerLoop(t_outputs, o_outputs, rtol, atol, layer, acc) ==
    IF layer >= Len(o_outputs) - 1 THEN acc
    ELSE LET is_close == AllClose(o_outputs[1 + layer + 1], t_outputs[2][layer + 1], rtol, atol)
         IN  LayerLoop(t_outputs, o_outputs, rtol, atol, layer + 1, acc /\ is_close)

\* compare_outputs, lines 244-262: the value returned.
CompareOutputs(t_outputs, o_outputs, rtol, atol) ==
    LET is_close == AllClose(o_outputs[1], t_outputs[1], rtol, atol)
    IN  LayerLoop(t_outputs, o_outputs, rtol, atol, 0, is_close)

\* The candidate outputs that agree with the reference except, at most, in
\* one element of one tensor.
Candidates(t_outputs) ==
    LET exact == <<t_outputs[1]>> \o t_outputs[2]
    IN  {exact} \cup
        {[exact EXCEPT ![k][i] = v] :
            k \in 1 .. Len(exact), i \in Elems, v \in Vals}

\* One call of compare_outputs.
CompareCall ==
    /\ cmp_status = "init"
    /\ \E num_layers \in 0 .. MaxLayers, rtol \in Tols, atol \in Tols :
       \E primary \in [Elems -> Vals], layers \in [1 .. num_layers -> [Elems -> Vals]] :
       \E candidate \in Candidates(<<primary, layers>>) :
          LET reference == <<primary, layers>>
              result == CompareOutputs(reference, candidate, rtol, atol)
          IN  /\ torch_outputs' = reference
              /\ ort_outputs' = candidate
              /\ tolerance' = [rtol |-> rtol, atol |-> atol]
              /\ is_all_close' = result
              /\ max_abs_diff' = IF result THEN None
                                 ELSE <<DiffOutputs(reference, candidate)>>
              /\ cmp_status' = "returned"
    /\ UNCHANGED notCmp

\* The caller drops the outputs of the trial.
DiscardOutputs ==
    /\ cmp_status = "returned"
    /\ cmp_status' = "init"
    /\ torch_outputs' = None
    /\ ort_outputs' = None
    /\ tolerance' = [rtol |-> 0, atol |-> 0]
    /\ is_all_close' = FALSE
    /\ max_abs_diff' = None
    /\ UNCHANGED notCmp

NextCmp == CompareCall \/ DiscardOutputs

SpecCmp == Init /\ [][NextCmp]_vars

(***************************************************************************)
(* Tensors and their storage.  A tensor is a view [ptr, numel, shape] of   *)
(* the storage at index ptr; two tensors with the same ptr share memory.   *)
(***************************************************************************)

\* The element values an engine writes and an uninitialised buffer may hold.
BufVals == {0, 1}

Min(a, b) == IF a <= b THEN a ELSE b
Max(a, b) == IF a >= b THEN a ELSE b

Filled(n, v) == [i \in 1 .. n |-> v]

\* The elements a tensor shows.
Elements(heap, t) == SubSeq(heap[t.ptr], 1, t.numel)

\* torch.empty(n): a new storage of n elements whose contents are whatever
\* the memory held (garbage); the new tensor is the last storage of the heap.
TorchEmpty(heap, n, garbage) == Append(heap, Filled(n, garbage))

NewTensor(heap, n) == [ptr |-> Len(heap), numel |-> n, shape |-> <<n>>]

\* buffer[0:n]: a view of the first n elements (fewer when the buffer is
\* shorter).
Slice(t, n) == [ptr |-> t.ptr, numel |-> Min(n, t.numel), shape |-> <<Min(n, t.numel)>>]

\* tensor.reshape(shape) of a contiguous tensor: a view; it raises
\* RuntimeError when the element counts differ.
ReshapeRaises(t, shape) == Prod(shape) # t.numel

Reshape(t, shape) == [ptr |-> t.ptr, numel |-> t.numel, shape |-> shape]

\* The first occurrences of the elements of a sequence, in order.
RECURSIVE Dedupe(_)
Dedupe(s) ==
    IF s = <<>> THEN <<>>
    ELSE LET d == Dedupe(SubSeq(s, 1, Len(s) - 1))
             x == s[Len(s)]
         IN  IF \E i \in 1 .. Len(d) : d[i] = x THEN d ELSE Append(d, x)

IndexOf(s, x) == CHOOSE i \in 1 .. Len(s) : s[i] = x

\* The names "present_" + str(i), line 204 (and line 293).
PresentNames(num_layer) == [i \in 1 .. num_layer |-> "present_" \o ToString(i - 1)]

\* The outputs of a session, in its order: the primary output of the model
\* class, then one present_i per layer.
OutputNames(model_class, num_layer) ==
    <<MODEL_CLASSES[model_class].output_name>> \o PresentNames(num_layer)

\* A variant of GetOutputShapes whose present_i leave the new tokens out of
\* the cache axis.
GetOutputShapes_CacheOnly(batch_size, past_sequence_length, sequence_length, config, model_class) ==
    LET output_name == MODEL_CLASSES[model_class].output_name
        present == PresentNames(config.n_layer)
    IN  [n \in {output_name} \cup {present[i] : i \in 1 .. config.n_layer} |->
            IF n = output_name
            THEN <<batch_size, sequence_length,
                   IF output_name = "logits" THEN config.vocab_size
                   ELSE config.hidden_size>>
            ELSE <<2, batch_size, config.num_attention_heads, past_sequence_length,
                   config.hidden_size \div config.num_attention_heads>>]

\* get_output_shapes, lines 189-206: output name -> shape.
GetOutputShapes(batch_size, past_sequence_length, sequence_length, config, model_class) ==
    LET num_attention_heads == config.num_attention_heads
        hidden_size == config.hidden_size
        num_layer   == config.n_layer
        vocab_size  == config.vocab_size
        output_name == MODEL_CLASSES[model_class].output_name
        last_state_shape ==
            <<batch_size, sequence_length,
              IF output_name = "logits" THEN vocab_size ELSE hidden_size>>
        present_state_shape ==
            <<2, batch_size, num_attention_heads, past_sequence_length + sequence_length,
              hidden_size \div num_attention_heads>>
        present == PresentNames(num_layer)
    IN  [n \in {output_name} \cup {present[i] : i \in 1 .. num_layer} |->
            IF n = output_name THEN last_state_shape ELSE present_state_shape]

\* The session of the buffer specifications: an LM-head model of one layer.
SessionOutputs == OutputNames("GPT2LMHeadModel", 1)

NameSet == {SessionOutputs[k] : k \in 1 .. Len(SessionOutputs)}

\* The storages in use: those of the buffers, in the session's order, then
\* those of the tensors the caller holds.
Roots(buffers, held) ==
    (IF buffers = None THEN <<>>
     ELSE [k \in 1 .. Len(SessionOutputs) |-> buffers[SessionOutputs[k]].ptr])
    \o [k \in 1 .. Len(held) |-> held[k].ptr]

\* The storages in use, each once.
InUse(buffers, held) == Dedupe(Roots(buffers, held))

\* Python frees a storage no tensor refers to.  The storages left are
\* renumbered in the order of InUse; Moved gives a tensor its new index.
Collect(heap, buffers, held) ==
    LET order == InUse(buffers, held)
    IN  [i \in 1 .. Len(order) |-> heap[order[i]]]

Moved(t, order) == [t EXCEPT !.ptr = IndexOf(order, t.ptr)]

MovedBuffers(buffers, held) ==
    IF buffers = None THEN None
    ELSE LET order == InUse(buffers, held)
         IN  [n \in DOMAIN buffers |-> Moved(buffers[n], order)]

MovedList(list, buffers, held) ==
    LET order == InUse(buffers, held)
    IN  [k \in 1 .. Len(list) |-> Moved(list[k], order)]

(***************************************************************************)
(* Gpt2Helper.get_output_buffers and Gpt2Helper.auto_increase_buffer_size  *)
(***************************************************************************)

\* The shapes of rank 1 with at most n elements, and one of rank 2.
ShapesUpTo(n) == {<<k>> : k \in 1 .. n} \cup {<<1, n>>}

\* The shapes the runner is called with.
BufShapes == {<<1>>, <<2>>, <<1, 2>>}

\* get_output_buffers, lines 222-227, from name k of shapes on: one
\* torch.empty(numpy.prod(shape)) per name.
RECURSIVE GetOutputBuffersLoop(_, _, _, _, _)
GetOutputBuffersLoop(st, names, shapes, garbage, k) ==
    IF k > Len(names) THEN st
    ELSE LET name == names[k]
             n    == Prod(shapes[name])
             heap == TorchEmpty(st.heap, n, garbage)
         IN  GetOutputBuffersLoop(
                 [heap |-> heap, buffers |-> st.buffers @@ (name :> NewTensor(heap, n))],
                 names, shapes, garbage, k + 1)

GetOutputBuffers(S) ==
    /\ bm_status = "init"
    /\ \E shapes \in [NameSet -> S], garbage \in BufVals :
        \E st \in {GetOutputBuffersLoop([heap |-> <<>>, buffers |-> <<>>], SessionOutputs,
                                       shapes, garbage, 1)} :
            /\ storage' = st.heap
            /\ output_buffers' = st.buffers
            /\ seen_max' = [n \in NameSet |-> Prod(shapes[n])]
            /\ prev_numel' = [n \in NameSet |-> Prod(shapes[n])]
            /\ replaced' = [n \in NameSet |-> FALSE]
    /\ bm_status' = "ok"
    /\ UNCHANGED <<io_binding, held_outputs, held_values, held_fresh>>
    /\ UNCHANGED notBuf

\* A mutant of NeedsIncrease: a buffer of exactly the required size is
\* replaced as well.
NeedsIncrease_OrEqual(required, nelement) == required >= nelement

\* Line 213: numpy.prod(output_shapes[key]) > buffer.nelement().
NeedsIncrease(required, nelement) == required > nelement

\* Line 214: the element count of the replacement.
IncreasedSize(required) == required

\* The keys a caller's output_shapes may hold, in the dict's order: the
\* session's names and a name the session does not have.
KeyOrder == <<SessionOutputs[1], "unknown">> \o Tail(SessionOutputs)

\* auto_increase_buffer_size, lines 210-216, from key k of keys on.  The
\* assertion of line 211 stops the loop at a key without a buffer; what the
\* earlier keys changed stays.  st.seen and st.replaced record, for the
\* claims, the requirement met at each key and whether line 214 ran for it.
RECURSIVE AutoIncreaseLoop(_, _, _, _, _)
AutoIncreaseLoop(st, keys, shapes, garbage, k) ==
    IF k > Len(keys) THEN st
    ELSE LET key == keys[k]
         IN  IF key \notin DOMAIN st.buffers
             THEN [st EXCEPT !.error = "AssertionError"]
             ELSE LET buffer   == st.buffers[key]
                      required == Prod(shapes[key])
                      n        == IncreasedSize(required)
                      heap     == TorchEmpty(st.heap, n, garbage)
                      grown    == [st EXCEPT !.heap = heap,
                                             !.buffers[key] = NewTensor(heap, n),
                                             !.replaced[key] = TRUE,
                                             !.seen[key] = Max(@, required)]
                      same     == [st EXCEPT !.seen[key] = Max(@, required)]
                  IN  AutoIncreaseLoop(
                          IF NeedsIncrease(required, buffer.numel) THEN grown ELSE same,
                          keys, shapes, garbage, k + 1)

\* The keys of KeyOrder that are in ks, in KeyOrder's order.
RECURSIVE KeysIn(_, _)
KeysIn(ks, k) ==
    IF k > Len(KeyOrder) THEN <<>>
    ELSE (IF KeyOrder[k] \in ks THEN <<KeyOrder[k]>> ELSE <<>>) \o KeysIn(ks, k + 1)

AutoIncreaseBufferSize(S) ==
    /\ bm_status \in {"ok", "AssertionError", "RuntimeError"}
    /\ \E ks \in (SUBSET (NameSet \cup {"unknown"})) \ {{}} :
       \E shapes \in [ks -> S], garbage \in BufVals :
       \E st \in {AutoIncreaseLoop(
                      [heap |-> storage, buffers |-> output_buffers, error |-> "ok",
                       seen |-> seen_max, replaced |-> [n \in NameSet |-> FALSE]],
                      KeysIn(ks, 1), shapes, garbage, 1)},
          held \in {IF held_outputs = None THEN <<>> ELSE held_outputs} :
            /\ ("unknown" \in ks => shapes["unknown"] = <<1>>)
            /\ storage' = Collect(st.heap, st.buffers, held)
            /\ output_buffers' = MovedBuffers(st.buffers, held)
            /\ held_outputs' = IF held_outputs = None THEN None
                               ELSE MovedList(held, st.buffers, held)
            /\ seen_max' = st.seen
            /\ replaced' = st.replaced
            /\ bm_status' = st.error
    /\ prev_numel' = [n \in NameSet |-> output_buffers[n].numel]
    /\ held_fresh' = FALSE
    /\ io_binding' = None
    /\ UNCHANGED held_values
    /\ UNCHANGED notBuf

(***************************************************************************)
(* Gpt2Helper.prepare_io_binding, the inputs (lines 430-460)               *)
(*                                                                         *)
(* A tensor is [shape, stride, dtype, ptr]: ptr is what data_ptr() reports, *)
(* an address counted in elements, 0 for a tensor that holds no memory.    *)
(***************************************************************************)

\* The strides of a freshly allocated tensor of the shape; an axis of size
\* 0 counts as one of size 1.
RECURSIVE ContiguousStride(_, _)
ContiguousStride(shape, d) ==
    IF d = Len(shape) THEN 1
    ELSE Max(shape[d + 1], 1) * ContiguousStride(shape, d + 1)

ContiguousStrides(shape) == [d \in 1 .. Len(shape) |-> ContiguousStride(shape, d)]

\* torch.Tensor.is_contiguous: walking the axes from the last, every axis of
\* size other than 1 has the stride of a dense layout; a tensor of no
\* elements is contiguous.
RECURSIVE IsContiguousFrom(_, _, _)
IsContiguousFrom(t, d, expected) ==
    IF d = 0 THEN TRUE
    ELSE IF t.shape[d] = 1 THEN IsContiguousFrom(t, d - 1, expected)
    ELSE /\ t.stride[d] = expected
         /\ IsContiguousFrom(t, d - 1, expected * t.shape[d])

IsContiguous(t) == Prod(t.shape) = 0 \/ IsContiguousFrom(t, Len(t.shape), 1)

\* data_ptr() of a tensor whose storage starts at addr, read from offset on:
\* a storage of no elements has no memory and reports 0.
DataPtr(addr, numel, offset) == IF numel = 0 THEN 0 ELSE addr + offset

\* Line 154 and line 222: the torch float type of a precision.
FloatType(float16) == IF float16 THEN "float16" ELSE "float32"

\* The tensors get_dummy_inputs returns, lines 154-179, as prepare_io_binding
\* sees them: shape, strides, dtype and data pointer. The cache tensors are
\* allocated first, then input_ids, the mask and the cumulative sum that
\* position_ids is a slice of (columns past_sequence_length on, line 177:
\* a view, with the strides of the whole and an offset into it).
DummyTensors(batch_size, past_sequence_length, sequence_length, num_layer, float16, has_position_ids, has_attention_mask) ==
    LET float_type == FloatType(float16)
        past_shape == PastShape(batch_size, past_sequence_length)
        total_sequence_length == past_sequence_length + sequence_length
        ids_addr  == 1 + num_layer * Prod(past_shape)
        mask_addr == ids_addr + batch_size * sequence_length
        pos_addr  == mask_addr + batch_size * total_sequence_length
    IN  [input_ids |->
            [shape |-> <<batch_size, sequence_length>>,
             stride |-> ContiguousStrides(<<batch_size, sequence_length>>),
             dtype |-> "int64",
             ptr |-> DataPtr(ids_addr, batch_size * sequence_length, 0)],
         past |->
            [i \in 1 .. num_layer |->
                [shape |-> past_shape,
                 stride |-> ContiguousStrides(past_shape),
                 dtype |-> float_type,
                 ptr |-> DataPtr(1 + (i - 1) * Prod(past_shape), Prod(past_shape), 0)]],
         attention_mask |->
            IF has_attention_mask
            THEN [shape |-> <<batch_size, total_sequence_length>>,
                  stride |-> ContiguousStrides(<<batch_size, total_sequence_length>>),
                  dtype |-> float_type,
                  ptr |-> DataPtr(mask_addr, batch_size * total_sequence_length, 0)]
            ELSE None,
         position_ids |->
            IF has_position_ids
            THEN [shape |-> <<batch_size, sequence_length>>,
                  stride |-> ContiguousStrides(<<batch_size, total_sequence_length>>),
                  dtype |-> "int64",
                  ptr |-> DataPtr(pos_addr, batch_size * total_sequence_length,
                                  past_sequence_length)]
            ELSE None]

\* Line 438: the numpy type every float input and every output is bound with,
\* from the dtype of the buffer of the first output.
NumpyFloatType(data_type) == IF data_type = "float16" THEN "float16" ELSE "float32"

\* A variant of PastDataPtr that binds the pointer the cache tensor reports.
PastDataPtr_NoSubstitute(past_i, input_ids) == past_i.ptr

\* Lines 444-448: the pointer bound for a cache tensor is its own, or that
\* of input_ids when its own is 0.
PastDataPtr(past_i, input_ids) ==
    IF past_i.ptr = 0 THEN input_ids.ptr ELSE past_i.ptr

\* Lines 441-450, from cache tensor i on; acc is [status, calls].
RECURSIVE BindPastLoop(_, _, _, _, _)
BindPastLoop(acc, past, input_ids, float_type, i) ==
    IF i > Len(past) THEN acc
    ELSE IF ~IsContiguous(past[i]) THEN [acc EXCEPT !.status = "AssertionError"]
    ELSE BindPastLoop(
            [acc EXCEPT !.calls =
                Append(@, [name |-> "past_" \o ToString(i - 1), dtype |-> float_type,
                           shape |-> past[i].shape,
                           ptr |-> PastDataPtr(past[i], input_ids)])],
            past, input_ids, float_type, i + 1)

\* Lines 452-455 and 457-460: an optional input is bound when it is given,
\* after the assertion that it is contiguous.
BindOptional(acc, name, t, dtype) ==
    IF acc.status # "ok" \/ t = None THEN acc
    ELSE IF ~IsContiguous(t) THEN [acc EXCEPT !.status = "AssertionError"]
    ELSE [acc EXCEPT !.calls =
            Append(@, [name |-> name, dtype |-> dtype, shape |-> t.shape, ptr |-> t.ptr])]

\* Lines 222-226, as far as the binding of the inputs reads them: a buffer
\* per name, of the float type the caller asks for.
BufferDtypes(names, is_float16) ==
    [n \in names |-> [dtype |-> FloatType(is_float16)]]

\* Lines 433-460: the bind_input calls, in order, and the exception that
\* stopped them.  After input_ids is bound, line 437 reads the dtype of the
\* buffer of the first output of the session: subscripting None raises
\* TypeError, a map without that name raises KeyError.
BindInputs(input_ids, position_ids, attention_mask, past, buffers, first_output) ==
    IF ~IsContiguous(input_ids) THEN [status |-> "AssertionError", calls |-> <<>>]
    ELSE IF buffers = None
    THEN [status |-> "TypeError",
          calls |-> <<[name |-> "input_ids", dtype |-> "longlong",
                       shape |-> input_ids.shape, ptr |-> input_ids.ptr]>>]
    ELSE IF first_output \notin DOMAIN buffers
    THEN [status |-> "KeyError",
          calls |-> <<[name |-> "input_ids", dtype |-> "longlong",
                       shape |-> input_ids.shape, ptr |-> input_ids.ptr]>>]
    ELSE
        LET data_type == buffers[first_output].dtype
            float_type == NumpyFloatType(data_type)
            first == [status |-> "ok",
                      calls |-> <<[name |-> "input_ids", dtype |-> "longlong",
                                   shape |-> input_ids.shape, ptr |-> input_ids.ptr]>>]
            after_past == IF past = None THEN first
                          ELSE BindPastLoop(first, past, input_ids, float_type, 1)
            after_mask == BindOptional(after_past, "attention_mask", attention_mask,
                                       float_type)
        IN  BindOptional(after_mask, "position_ids", position_ids, "longlong")

(***************************************************************************)
(* Gpt2Helper.prepare_io_binding, get_outputs_from_io_binding_buffer and   *)
(* onnxruntime_inference_with_binded_io                                    *)
(***************************************************************************)

\* prepare_io_binding, lines 463-468: every output of the session is bound
\* with the shape of output_shapes and the data pointer of its buffer.
PrepareIoBinding(buffers, shapes) ==
    [n \in NameSet |-> [shape |-> shapes[n], ptr |-> buffers[n].ptr]]

\* A bound output asks the engine for more elements than its buffer holds.
Overflows(heap, binding) ==
    \E n \in NameSet : Prod(binding[n].shape) > Len(heap[binding[n].ptr])

\* ort_session.run_with_iobinding: the engine writes Prod(shape) elements
\* through every bound pointer.  Elements past the end of a buffer land
\* outside of it.
RunWithIobinding(heap, binding, fill) ==
    [p \in 1 .. Len(heap) |->
        IF \E n \in NameSet : binding[n].ptr = p
        THEN LET n == CHOOSE m \in NameSet : binding[m].ptr = p
             IN  [i \in 1 .. Len(heap[p]) |->
                     IF i <= Prod(binding[n].shape) THEN fill ELSE heap[p][i]]
        ELSE heap[p]]

\* A mutant of CopyTensor: clone() is left out, the result is a view of the
\* buffer.
CopyTensor_NoClone(heap, buffer, shape) ==
    [heap |-> heap, tensor |-> Reshape(Slice(buffer, Prod(shape)), shape)]

\* Line 481: buffer[0:numpy.prod(shape)].reshape(shape).clone().detach().
\* clone() copies the elements into a storage of its own; detach(), cpu()
\* and numpy() keep that storage.
CopyTensor(heap, buffer, shape) ==
    LET view   == Reshape(Slice(buffer, Prod(shape)), shape)
        cloned == Append(heap, Elements(heap, view))
    IN  [heap |-> cloned, tensor |-> [view EXCEPT !.ptr = Len(cloned)]]

\* get_outputs_from_io_binding_buffer, lines 476-486, from output k on.
RECURSIVE ReadBackLoop(_, _, _, _)
ReadBackLoop(st, buffers, shapes, k) ==
    IF k > Len(SessionOutputs) THEN st
    ELSE LET output_name == SessionOutputs[k]
             buffer == buffers[output_name]
             shape  == shapes[output_name]
             copy   == CopyTensor(st.heap, buffer, shape)
         IN  IF ReshapeRaises(Slice(buffer, Prod(shape)), shape)
             THEN [st EXCEPT !.error = "RuntimeError"]
             ELSE ReadBackLoop([st EXCEPT !.heap = copy.heap,
                                          !.ort_outputs = Append(@, copy.tensor)],
                               buffers, shapes, k + 1)

GetOutputsFromIoBindingBuffer(heap, buffers, shapes) ==
    ReadBackLoop([heap |-> heap, ort_outputs |-> <<>>, error |-> "ok"], buffers, shapes, 1)

\* Lines 515-522: the bound request is run total_runs times more.
RECURSIVE LatencyLoop(_, _, _, _)
LatencyLoop(heap, binding, fill, total_runs) ==
    IF total_runs = 0 THEN heap
    ELSE LatencyLoop(RunWithIobinding(heap, binding, fill), binding, fill, total_runs - 1)

\* The batches the bound runner is called with: those of get_dummy_inputs
\* for one token and a model of one layer, with the attention mask.
RunnerBatches ==
    {DummyTensors(batch_size, past_sequence_length, 1, 1, FALSE, has_position_ids, TRUE) :
        batch_size \in 1 .. MaxBatch, past_sequence_length \in 0 .. 1,
        has_position_ids \in BOOLEAN}

\* One call of onnxruntime_inference_with_binded_io, lines 501-527.
\* prepare_io_binding binds the inputs first: an input that is not
\* contiguous ends the call on the assertion, before an output is bound and
\* before the engine runs.  fill is what the engine computes for the inputs.
\* A write past the end of a buffer is undefined: it ends the process
\* (out_of_bounds = "crash") or goes unnoticed ("overrun").  keep: the
\* caller drops the new outputs and goes on holding the ones of an earlier
\* call.
OnnxruntimeInferenceWithBindedIo(S) ==
    /\ bm_status \in {"ok", "AssertionError", "RuntimeError"}
    /\ \E shapes \in [NameSet -> S], fill \in BufVals, total_runs \in {0, 1} :
       \E binding \in {PrepareIoBinding(output_buffers, shapes)} :
       \E written \in {RunWithIobinding(storage, binding, fill)},
          keep \in (IF held_outputs = None THEN {FALSE} ELSE BOOLEAN),
          out_of_bounds \in (IF Overflows(storage, binding) THEN {"crash", "overrun"}
                             ELSE {"none"}) :
       \E read \in {GetOutputsFromIoBindingBuffer(written, output_buffers, shapes)} :
       \E after \in {LatencyLoop(read.heap, binding, fill, total_runs)},
          old \in {IF held_outputs = None THEN <<>> ELSE held_outputs} :
       \E bound_run \in
            {IF Overflows(storage, binding) /\ out_of_bounds = "crash"
             THEN [bm_status |-> "crash", storage |-> storage,
                   output_buffers |-> output_buffers, held_outputs |-> held_outputs,
                   held_values |-> held_values, held_fresh |-> FALSE]
             ELSE IF read.error # "ok"
             THEN [bm_status |-> read.error,
                   storage |-> Collect(written, output_buffers, old),
                   output_buffers |-> MovedBuffers(output_buffers, old),
                   held_outputs |-> IF held_outputs = None THEN None
                                    ELSE MovedList(old, output_buffers, old),
                   held_values |-> held_values, held_fresh |-> FALSE]
             ELSE IF keep /\ held_outputs # None
             THEN [bm_status |-> "ok",
                   storage |-> Collect(after, output_buffers, old),
                   output_buffers |-> MovedBuffers(output_buffers, old),
                   held_outputs |-> MovedList(old, output_buffers, old),
                   held_values |-> held_values, held_fresh |-> FALSE]
             ELSE [bm_status |-> "ok",
                   storage |-> Collect(after, output_buffers, read.ort_outputs),
                   output_buffers |-> MovedBuffers(output_buffers, read.ort_outputs),
                   held_outputs |-> MovedList(read.ort_outputs, output_buffers,
                                              read.ort_outputs),
                   held_values |-> [k \in 1 .. Len(read.ort_outputs) |->
                                       Elements(read.heap, read.ort_outputs[k])],
                   held_fresh |-> TRUE]} :
       \E inputs \in RunnerBatches :
       \E bound \in {BindInputs(inputs.input_ids, inputs.position_ids,
                                inputs.attention_mask, inputs.past,
                                BufferDtypes(NameSet, FALSE), SessionOutputs[1])} :
            IF bound.status # "ok"
            THEN /\ bm_status' = bound.status
                 /\ io_binding' = None
                 /\ held_fresh' = FALSE
                 /\ UNCHANGED <<storage, output_buffers, held_outputs, held_values>>
            ELSE /\ bm_status' = bound_run.bm_status
                 /\ io_binding' = binding
                 /\ storage' = bound_run.storage
                 /\ output_buffers' = bound_run.output_buffers
                 /\ held_outputs' = bound_run.held_outputs
                 /\ held_values' = bound_run.held_values
                 /\ held_fresh' = bound_run.held_fresh
    /\ prev_numel' = [n \in NameSet |-> output_buffers[n].numel]
    /\ replaced' = [n \in NameSet |-> FALSE]
    /\ UNCHANGED seen_max
    /\ UNCHANGED notBuf

NextBuf ==
    \/ GetOutputBuffers(BufShapes)
    \/ AutoIncreaseBufferSize(BufShapes)
    \/ OnnxruntimeInferenceWithBindedIo(BufShapes)

SpecBuf == Init /\ [][NextBuf]_vars

NextGrow ==
    \/ GetOutputBuffers(ShapesUpTo(MaxGrow))
    \/ AutoIncreaseBufferSize(ShapesUpTo(MaxGrow))

SpecGrow == Init /\ [][NextGrow]_vars

(***************************************************************************)
(* Gpt2Helper.test_parity                                                  *)
(***************************************************************************)

\* What the two engines return in a trial: the reference holds zeros, and
\* the candidate agrees with it or is off by one in the first element of one
\* of its tensors.
TrialReference == <<Filled(2, 0), [i \in 1 .. Config.n_layer |-> Filled(2, 0)]>>

TrialCandidates ==
    LET exact == <<TrialReference[1]>> \o TrialReference[2]
    IN  {exact} \cup {[exact EXCEPT ![k][1] = 1] : k \in 1 .. Len(exact)}

\* Lines 544-560: the buffers are made when use_io_binding is set, and the
\* count of passed trials starts at 0.  The session is one of the default
\* model class, with rtol = 0.
StartParity ==
    /\ tp_pc = "init"
    /\ \E total_test_cases \in 0 .. MaxTrials, use_io_binding \in BOOLEAN, atol \in Tols,
          has_position_ids \in BOOLEAN, has_attention_mask \in BOOLEAN,
          garbage \in BufVals :
        /\ tp_args' = [total_test_cases |-> total_test_cases,
                       use_io_binding |-> use_io_binding, atol |-> atol,
                       has_position_ids |-> has_position_ids,
                       has_attention_mask |-> has_attention_mask]
        /\ IF use_io_binding
           THEN \E st \in {GetOutputBuffersLoop(
                               [heap |-> <<>>, buffers |-> <<>>],
                               OutputNames("GPT2LMHeadModel", Config.n_layer),
                               GetOutputShapes(max_batch_size, max_past_seq_len, max_seq_len,
                                               Config, "GPT2LMHeadModel"),
                               garbage, 1)} :
                    /\ storage' = st.heap
                    /\ output_buffers' = st.buffers
           ELSE /\ storage' = <<>>
                /\ output_buffers' = None
    /\ tp_pc' = "loop"
    /\ passed_test_cases' = 0
    /\ UNCHANGED <<tp_trials, tp_verdicts, tp_runner, tp_error, tp_logged_good, tp_result>>
    /\ UNCHANGED <<bm_status, io_binding, held_outputs, held_values, held_fresh, seen_max,
                   prev_numel, replaced>>
    /\ UNCHANGED <<synthVars, cmpVars, bindVars, shapeVars, fwdVars, exportVars>>

\* The runner a trial calls, lines 574-580: onnxruntime_inference when
\* use_io_binding is set, onnxruntime_inference_with_binded_io when not.
TrialRunner(use_io_binding) == IF use_io_binding THEN "value" ELSE "bound"

\* prepare_io_binding, line 437, subscripts output_buffers: with None for
\* the buffers it raises TypeError.
BoundRunnerRaises(buffers) == buffers = None

\* One iteration of the loop, lines 561-584.  An exception of a call leaves
\* the loop and test_parity.  The dimensions drawn shape the inputs and the
\* output_shapes handed to the bound runner; the engines' outputs are drawn
\* apart from them.
Trial ==
    /\ tp_pc = "loop"
    /\ tp_trials < tp_args.total_test_cases
    /\ \E sequence_length \in RandomRandint(1, max_seq_len),
          past_sequence_length \in RandomRandint(0, max_past_seq_len),
          batch_size \in RandomRandint(1, max_batch_size),
          candidate \in TrialCandidates :
        LET runner == TrialRunner(tp_args.use_io_binding)
        IN
        IF DummyInputsRaises(tp_args.has_position_ids, tp_args.has_attention_mask)
        THEN /\ tp_pc' = "raised"
             /\ tp_error' = "AttributeError"
             /\ UNCHANGED <<tp_trials, passed_test_cases, tp_verdicts, tp_runner, cmpVars>>
        ELSE IF runner = "bound" /\ BoundRunnerRaises(output_buffers)
        THEN /\ tp_pc' = "raised"
             /\ tp_error' = "TypeError"
             /\ tp_runner' = runner
             /\ UNCHANGED <<tp_trials, passed_test_cases, tp_verdicts, cmpVars>>
        ELSE \E result \in {CompareOutputs(TrialReference, candidate, 0, tp_args.atol)} :
             /\ torch_outputs' = TrialReference
             /\ ort_outputs' = candidate
             /\ tolerance' = [rtol |-> 0, atol |-> tp_args.atol]
             /\ is_all_close' = result
             /\ max_abs_diff' = IF result THEN None
                                ELSE <<DiffOutputs(TrialReference, candidate)>>
             /\ cmp_status' = "returned"
             /\ tp_runner' = runner
             /\ passed_test_cases' = IF result THEN passed_test_cases + 1
                                     ELSE passed_test_cases
             /\ tp_verdicts' = Append(tp_verdicts, result)
             /\ tp_trials' = tp_trials + 1
             /\ UNCHANGED <<tp_pc, tp_error>>
    /\ UNCHANGED <<tp_args, tp_logged_good, tp_result>>
    /\ UNCHANGED <<synthVars, bufVars, bindVars, shapeVars, fwdVars, exportVars>>

\* Lines 585-588, after the last iteration: the good rate is logged, and
\* the value returned is passed_test_cases == total_test_cases.
FinishParity ==
    /\ tp_pc = "loop"
    /\ tp_trials = tp_args.total_test_cases
    /\ tp_logged_good' = (100 * passed_test_cases > 95 * tp_args.total_test_cases)
    /\ tp_result' = <<passed_test_cases = tp_args.total_test_cases>>
    /\ tp_pc' = "done"
    /\ UNCHANGED <<tp_args, tp_trials, passed_test_cases, tp_verdicts, tp_runner, tp_error>>
    /\ UNCHANGED <<synthVars, cmpVars, bufVars, bindVars, shapeVars, fwdVars, exportVars>>

NextParity == StartParity \/ Trial \/ FinishParity

SpecParity == Init /\ [][NextParity]_vars

(***************************************************************************)
(* Gpt2Helper.prepare_io_binding called on its own (lines 424-470)         *)
(***************************************************************************)

\* The output buffers a caller can pass: None, or those get_output_buffers
\* makes for the outputs of a model class, in either float type.
BufferChoices == {"none"} \cup ModelClassNames

BuffersOf(choice, num_layer, is_float16) ==
    IF choice = "none" THEN None
    ELSE LET names == OutputNames(choice, num_layer)
         IN  BufferDtypes({names[k] : k \in 1 .. Len(names)}, is_float16)

\* One call of prepare_io_binding, as far as the inputs: the session is
\* that of a model class, the batch is one of get_dummy_inputs, and the
\* output buffers are any the caller passes, whose float type is chosen
\* apart from that of the batch.
PrepareIoBindingCall ==
    /\ pb_status = "init"
    /\ \E batch_size \in 1 .. MaxBatch, past_sequence_length \in 0 .. MaxPast,
          sequence_length \in 1 .. max_seq_len, num_layer \in 0 .. MaxLayers + 1,
          is_float16 \in BOOLEAN, has_position_ids \in BOOLEAN,
          has_attention_mask \in BOOLEAN, model_class \in ModelClassNames,
          buffers_of \in BufferChoices, buffers_float16 \in BOOLEAN :
        /\ ~DummyInputsRaises(has_position_ids, has_attention_mask)
        /\ buffers_of = "none" => ~buffers_float16
        /\ \E inputs \in {DummyTensors(batch_size, past_sequence_length, sequence_length,
                                       num_layer, is_float16, has_position_ids,
                                       has_attention_mask)},
              buffers \in {BuffersOf(buffers_of, num_layer, buffers_float16)},
              first_output \in {OutputNames(model_class, num_layer)[1]} :
           \E bound \in {BindInputs(inputs.input_ids, inputs.position_ids,
                                    inputs.attention_mask, inputs.past,
                                    buffers, first_output)} :
             /\ pb_args' = [batch_size |-> batch_size,
                             past_sequence_length |-> past_sequence_length,
                             sequence_length |-> sequence_length,
                             num_layer |-> num_layer,
                             is_float16 |-> is_float16,
                             has_position_ids |-> has_position_ids,
                             has_attention_mask |-> has_attention_mask,
                             first_output |-> first_output,
                             output_buffers |-> buffers]
             /\ pb_inputs' = inputs
             /\ pb_binding' = bound.calls
             /\ pb_status' = IF bound.status = "ok" THEN "bound" ELSE bound.status
    /\ UNCHANGED notBind

\* The caller drops the binding and the batch.
DiscardBinding ==
    /\ pb_status # "init"
    /\ pb_status' = "init"
    /\ pb_args' = None
    /\ pb_inputs' = None
    /\ pb_binding' = <<>>
    /\ UNCHANGED notBind

NextBind == PrepareIoBindingCall \/ DiscardBinding

SpecBind == Init /\ [][NextBind]_vars

(***************************************************************************)
(* The model wrappers: MyGPT2Model.post_process and the forward methods    *)
(* (lines 48-102)                                                          *)
(*                                                                         *)
(* What the wrapped transformers model returns is [primary, presents,      *)
(* extras]: the primary output, one entry per layer and the count of any   *)
(* further elements of the result. An entry of a layer is                  *)
(* [kind |-> "tuple", items |-> <<key, value>>] since transformers v4 and  *)
(* [kind |-> "tensor", shape, data] before; data is the flat content.      *)
(***************************************************************************)

\* The elements a key or a value holds.
KvVals == {0, 1}

\* The shape of the key and of the value of a layer, (batch, num_heads,
\* total_seq_len, head_dim), kept to one element.
KvShape == <<1, 1, 1, 1>>

\* tensor.unsqueeze(0): a new leading axis of size 1 over the same content.
Unsqueeze0(t) == [kind |-> "tensor", shape |-> <<1>> \o t.shape, data |-> t.data]

\* torch.cat((a, b), dim=0) of tensors that agree on the other axes: the
\* content of a, then that of b.
Cat0(a, b) ==
    [kind |-> "tensor",
     shape |-> <<a.shape[1] + b.shape[1]>> \o Tail(a.shape),
     data |-> a.data \o b.data]

\* Line 63: key and value of a layer as one tensor.
StackKeyValue(entry) == Cat0(Unsqueeze0(entry.items[1]), Unsqueeze0(entry.items[2]))

\* len(result): the primary output, the presents and the further elements.
ResultLen(result) == 2 + result.extras

\* MyGPT2Model.post_process, lines 55-66. result[1][0] of an empty tuple
\* raises IndexError; the assertion of line 57 checks the count of layers
\* and the length of the first entry.
PostProcess(result, num_layer) ==
    IF Len(result.presents) = 0 THEN [status |-> "IndexError", value |-> None]
    ELSE IF result.presents[1].kind = "tuple"
    THEN IF ~(Len(result.presents) = num_layer /\ Len(result.presents[1].items) = 2)
         THEN [status |-> "AssertionError", value |-> None]
         ELSE [status |-> "returned",
               value |-> [primary |-> result.primary,
                          presents |-> [i \in 1 .. num_layer |->
                                           StackKeyValue(result.presents[i])],
                          extras |-> 0]]
    ELSE [status |-> "returned", value |-> result]

\* The forward method of the wrapper of a model class: MyGPT2Model (lines
\* 68-74) and MyGPT2LMHeadModel (lines 83-90) return post_process of the
\* result, MyGPT2LMHeadModel_NoPadding (lines 101-102) the result itself.
Forward(model_class, n_layer, result) ==
    IF model_class = "GPT2LMHeadModel_NoPadding"
    THEN [status |-> "returned", value |-> result]
    ELSE PostProcess(result, n_layer)

\* The shape of the primary output of a model class: logits end in the
\* vocabulary size, the last state in the hidden size (lines 295 and 304-305).
PrimaryShape(model_class, batch_size, sequence_length, config) ==
    <<batch_size, sequence_length,
      IF model_class = "GPT2Model" THEN config.hidden_size ELSE config.vocab_size>>

\* The entry of a layer as the wrapped model returns it in the style: key
\* and value apart, or as one tensor.
LayerEntry(style, key, value) ==
    LET pair == [kind |-> "tuple",
                 items |-> <<[kind |-> "tensor", shape |-> KvShape, data |-> key],
                             [kind |-> "tensor", shape |-> KvShape, data |-> value]>>]
    IN  IF style = "separate" THEN pair ELSE StackKeyValue(pair)

\* The results a wrapped model may return for one token: layers entries in
\* the style, extras further elements.
ModelResults(model_class, config, layers, style, extras) ==
    {[primary |-> [kind |-> "tensor", shape |-> PrimaryShape(model_class, 1, 1, config)],
      presents |-> [i \in 1 .. layers |-> LayerEntry(style, kv[i][1], kv[i][2])],
      extras |-> extras] :
        kv \in [1 .. layers -> [1 .. 2 -> [1 .. Prod(KvShape) -> KvVals]]]}

\* One forward call of a wrapper: the wrapped model is built from the
\* configuration of the wrapper and returns an entry for each of its layers.
ForwardCall ==
    /\ fw_status = "init"
    /\ \E model_class \in ModelClassNames, n_layer \in 0 .. MaxLayers + 1,
          style \in {"separate", "stacked"} :
       \E result \in ModelResults(model_class, Config, n_layer, style, 0) :
       \E out \in {Forward(model_class, n_layer, result)} :
         /\ fw_args' = [model_class |-> model_class, n_layer |-> n_layer,
                        style |-> style, result |-> result]
         /\ fw_status' = out.status
         /\ fw_result' = out.value
    /\ UNCHANGED notFwd

\* The caller drops the outputs.
DiscardForward ==
    /\ fw_status # "init"
    /\ fw_status' = "init"
    /\ fw_args' = None
    /\ fw_result' = None
    /\ UNCHANGED notFwd

NextForward == ForwardCall \/ DiscardForward

SpecForward == Init /\ [][NextForward]_vars

(***************************************************************************)
(* Gpt2Helper.export_onnx (lines 264-340)                                  *)
(***************************************************************************)

\* The configurations of the models exported: the layers vary, and the
\* vocabulary is that of Config or as small as the hidden size.
ExportConfigs ==
    {[Config EXCEPT !.n_layer = n, !.vocab_size = v] :
        n \in 0 .. MaxLayers + 1, v \in {Config.hidden_size, Config.vocab_size}}

\* Line 292: the names 'past_' + str(i).
PastNames(num_layer) == [i \in 1 .. num_layer |-> "past_" \o ToString(i - 1)]

\* Line 296: the last axis of the primary output is the vocabulary size or
\* the hidden size.
PrimaryAxisValid(outputs, config) ==
    \/ outputs.primary.shape[3] = config.vocab_size
    \/ outputs.primary.shape[3] = config.hidden_size

\* Line 297: the name of the primary output, from its last axis.
PrimaryOutputName(outputs, config) ==
    IF outputs.primary.shape[3] = config.vocab_size THEN "logits" ELSE "last_state"

\* Lines 307, 315 and 318: axis 0 is the batch, axis 1 the sequence.
BatchSeqAxes == (0 :> "batch_size" @@ 1 :> "seq_len")

MaskAxes == (0 :> "batch_size" @@ 1 :> "total_seq_len")

\* Line 309: the axes of a past_i that may vary.
PastAxes == (1 :> "batch_size" @@ 3 :> "past_seq_len")

\* A variant of PresentAxes with the sequence axis one further on.
PresentAxes_Shifted == (1 :> "batch_size" @@ 4 :> "total_seq_len")

\* Line 311: the axes of a present_i that may vary.
PresentAxes == (1 :> "batch_size" @@ 3 :> "total_seq_len")

SeqToSet(s) == {s[i] : i \in 1 .. Len(s)}

\* Lines 307-319: dynamic_axes, name -> (axis -> the name of its size). A
\* later assignment to a key replaces an earlier one.
DynamicAxes(output_names, past_names, present_names, has_position_ids, has_attention_mask) ==
    LET keys == {"input_ids", output_names[1]} \cup SeqToSet(past_names)
                \cup SeqToSet(present_names)
                \cup (IF has_position_ids THEN {"position_ids"} ELSE {})
                \cup (IF has_attention_mask THEN {"attention_mask"} ELSE {})
    IN  [n \in keys |->
            IF has_attention_mask /\ n = "attention_mask" THEN MaskAxes
            ELSE IF has_position_ids /\ n = "position_ids" THEN BatchSeqAxes
            ELSE IF n \in SeqToSet(present_names) THEN PresentAxes
            ELSE IF n \in SeqToSet(past_names) THEN PastAxes
            ELSE BatchSeqAxes]

\* Lines 313-320: input_names.
InputNames(past_names, has_position_ids, has_attention_mask) ==
    <<"input_ids">>
    \o (IF has_position_ids THEN <<"position_ids">> ELSE <<>>)
    \o (IF has_attention_mask THEN <<"attention_mask">> ELSE <<>>)
    \o past_names

\* A variant of OutputCountValid that accepts any result.
OutputCountValid_Unchecked(outputs, num_layer) == TRUE

\* Line 322: the forward pass returned the primary output and the presents,
\* one per layer.
OutputCountValid(outputs, num_layer) ==
    ResultLen(outputs) = 2 /\ Len(outputs.presents) = num_layer

\* Lines 324-326: the message formats dummy_inputs.past[0].shape and
\* outputs[1][0].shape; a tuple has no attribute shape.
ShapesMessageRaises(outputs, num_layer) ==
    IF num_layer = 0 \/ Len(outputs.presents) = 0 THEN "IndexError"
    ELSE IF outputs.presents[1].kind = "tuple" THEN "AttributeError"
    ELSE "none"

\* Gpt2Inputs.to_list, lines 120-125: the count of the items, input_ids,
\* position_ids and attention_mask when they are not None, and the cache
\* tensors.
ToListLen(has_position_ids, has_attention_mask, num_layer) ==
    1 + (IF has_position_ids THEN 1 ELSE 0) + (IF has_attention_mask THEN 1 ELSE 0)
    + num_layer

\* The positional arguments forward requires: input_ids, position_ids and
\* attention_mask (lines 68 and 83), or input_ids alone (line 101).
RequiredArgs(model_class) == IF model_class = "GPT2LMHeadModel_NoPadding" THEN 1 ELSE 3

\* Line 290: a call with fewer positional arguments than forward requires
\* raises TypeError.
ForwardArgsRaise(model_class, nargs) == nargs < RequiredArgs(model_class)

\* One call of export_onnx: the batch of lines 276-286, the forward pass of
\* line 290, the names and the dynamic axes, the assertions of lines 296
\* and 322, the message of line 324 and the call of torch.onnx.export,
\* which writes the graph file.
ExportOnnx ==
    /\ ex_status = "init"
    /\ \E model_class \in ModelClassNames, config \in ExportConfigs,
          has_position_ids \in BOOLEAN, has_attention_mask \in BOOLEAN,
          layers \in 0 .. MaxLayers + 1, style \in {"separate", "stacked"},
          extras \in 0 .. 1 :
       \E result \in ModelResults(model_class, config, layers, style, extras) :
       \E num_layer \in {config.n_layer} :
       \E out \in {Forward(model_class, num_layer, result)} :
         /\ ex_args' = [model_class |-> model_class, config |-> config,
                        has_position_ids |-> has_position_ids,
                        has_attention_mask |-> has_attention_mask,
                        style |-> style, result |-> result]
         /\ IF DummyInputsRaises(has_position_ids, has_attention_mask)
            THEN /\ ex_status' = "AttributeError"
                 /\ ex_outputs' = None
                 /\ ex_decl' = None
                 /\ ex_exports' = 0
                 /\ ex_file' = FALSE
            ELSE IF ForwardArgsRaise(model_class,
                                     ToListLen(has_position_ids, has_attention_mask,
                                               num_layer))
            THEN /\ ex_status' = "TypeError"
                 /\ ex_outputs' = None
                 /\ ex_decl' = None
                 /\ ex_exports' = 0
                 /\ ex_file' = FALSE
            ELSE IF out.status # "returned"
            THEN /\ ex_status' = out.status
                 /\ ex_outputs' = None
                 /\ ex_decl' = None
                 /\ ex_exports' = 0
                 /\ ex_file' = FALSE
            ELSE IF ~PrimaryAxisValid(out.value, config)
            THEN /\ ex_status' = "AssertionError"
                 /\ ex_outputs' = out.value
                 /\ ex_decl' = None
                 /\ ex_exports' = 0
                 /\ ex_file' = FALSE
            ELSE
              LET outputs == out.value
                  past_names == PastNames(num_layer)
                  present_names == PresentNames(num_layer)
                  output_names == <<PrimaryOutputName(outputs, config)>> \o present_names
                  decl == [input_names |-> InputNames(past_names, has_position_ids,
                                                      has_attention_mask),
                           output_names |-> output_names,
                           dynamic_axes |-> DynamicAxes(output_names, past_names,
                                                        present_names, has_position_ids,
                                                        has_attention_mask)]
                  raised == IF ~OutputCountValid(outputs, num_layer)
                            THEN "AssertionError"
                            ELSE ShapesMessageRaises(outputs, num_layer)
              IN  /\ ex_outputs' = outputs
                  /\ ex_decl' = decl
                  /\ IF raised # "none"
                     THEN /\ ex_status' = raised
                          /\ ex_exports' = 0
                          /\ ex_file' = FALSE
                     ELSE /\ ex_status' = "exported"
                          /\ ex_exports' = 1
                          /\ ex_file' = TRUE
    /\ UNCHANGED notExport

\* The next export starts afresh, to a path without a file.
DiscardExport ==
    /\ ex_status # "init"
    /\ ex_status' = "init"
    /\ ex_args' = None
    /\ ex_outputs' = None
    /\ ex_decl' = None
    /\ ex_exports' = 0
    /\ ex_file' = FALSE
    /\ UNCHANGED notExport

NextExport == ExportOnnx \/ DiscardExport

SpecExport == Init /\ [][NextExport]_vars

(***************************************************************************)
(* Gpt2Helper.get_output_shapes called on its own (lines 181-206)          *)
(***************************************************************************)

\* The configurations get_output_shapes is called with: the hidden size is
\* a multiple of the number of heads.
ShapeConfigs ==
    {[num_attention_heads |-> h, hidden_size |-> d, n_layer |-> n, vocab_size |-> v] :
        h \in {1, Config.num_attention_heads},
        d \in {Config.num_attention_heads, Config.hidden_size},
        n \in 0 .. MaxLayers + 1,
        v \in {Config.hidden_size, Config.vocab_size}}

\* One call of get_output_shapes.
GetOutputShapesCall ==
    /\ os_status = "init"
    /\ \E batch_size \in 1 .. MaxBatch, past_sequence_length \in 0 .. MaxPast,
          sequence_length \in 1 .. max_seq_len, config \in ShapeConfigs,
          model_class \in ModelClassNames :
         /\ os_args' = [batch_size |-> batch_size,
                        past_sequence_length |-> past_sequence_length,
                        sequence_length |-> sequence_length,
                        config |-> config, model_class |-> model_class]
         /\ output_shapes' = GetOutputShapes(batch_size, past_sequence_length,
                                             sequence_length, config, model_class)
         /\ os_status' = "returned"
    /\ UNCHANGED notShape

\* The caller drops the shapes: an OutputShapeMap lives for one trial.
DiscardShapes ==
    /\ os_status # "init"
    /\ os_status' = "init"
    /\ os_args' = None
    /\ output_shapes' = None
    /\ UNCHANGED notShape

NextShapes == GetOutputShapesCall \/ DiscardShapes

SpecShapes == Init /\ [][NextShapes]_vars

(***************************************************************************)
(* Claims about test_parity, checked under SpecParity.                     *)
(***************************************************************************)

\* C1 (as claimed): test_parity with total_test_cases = N runs exactly N
\* trials, a trial that compares false does not stop the loop, and the
\* boolean returned is true exactly when all N trials compared true; the
\* 95% check only logs.
C1_ExactlyNTrialsStrictVerdict ==
    tp_pc \in {"done", "raised"} =>
        /\ tp_pc = "done"
        /\ tp_trials = tp_args.total_test_cases
        /\ Len(tp_verdicts) = tp_args.total_test_cases
        /\ tp_result = <<\A i \in 1 .. Len(tp_verdicts) : tp_verdicts[i]>>

\* C2 (as claimed): a trial calls the bound-buffer runner only in a session
\* that created the buffers at its start, with a buffer for every output
\* name, and a session that selected value-passing mode never calls it.
C2_BoundRunnerHasBuffers ==
    /\ tp_runner = "bound" =>
          /\ tp_args.use_io_binding
          /\ output_buffers # None
          /\ \A k \in 1 .. Config.n_layer + 1 :
                OutputNames("GPT2LMHeadModel", Config.n_layer)[k] \in DOMAIN output_buffers
    /\ (tp_pc # "init" /\ ~tp_args.use_io_binding) => tp_runner # "bound"

(***************************************************************************)
(* Claims about the buffer manager and the bound-buffer runner.            *)
(***************************************************************************)

\* The elements of the buffer of output k that a shape covers.
BufferPrefix(k, shape) ==
    SubSeq(storage[output_buffers[SessionOutputs[k]].ptr], 1, Prod(shape))

\* C3 (as claimed): when onnxruntime_inference_with_binded_io is called with
\* a shape whose element count exceeds that of the matching buffer, the
\* buffer is reallocated to at least that count before it is bound and the
\* engine is run, and no error is surfaced.  Checked under SpecBuf.
C3_ShortfallRecovered ==
    (io_binding # None
     /\ \E n \in NameSet : Prod(io_binding[n].shape) > prev_numel[n]) =>
        /\ bm_status = "ok"
        /\ \A n \in NameSet :
              /\ io_binding[n].ptr = output_buffers[n].ptr
              /\ Len(storage[io_binding[n].ptr]) >= Prod(io_binding[n].shape)

\* C4: over any sequence of auto_increase_buffer_size calls the element
\* count of a buffer never decreases, a buffer is replaced only when the
\* required count is strictly greater than its count, and its count is the
\* maximum of the initial count and every requirement seen so far.  Checked
\* under SpecGrow.
C4_CapacityIsMaxSeen ==
    output_buffers # None =>
        \A n \in NameSet :
            /\ output_buffers[n].numel = seen_max[n]
            /\ Len(storage[output_buffers[n].ptr]) = output_buffers[n].numel
            /\ output_buffers[n].numel >= prev_numel[n]
            /\ replaced[n] => output_buffers[n].numel > prev_numel[n]

\* One call grew the first buffer to the largest size and left the second,
\* which was large enough, alone.
C4_Witness ==
    /\ bm_status = "ok"
    /\ replaced[SessionOutputs[1]]
    /\ prev_numel[SessionOutputs[1]] = 2
    /\ output_buffers[SessionOutputs[1]].numel = MaxGrow
    /\ ~replaced[SessionOutputs[2]]
    /\ output_buffers[SessionOutputs[2]].numel = 2

\* C5: what get_outputs_from_io_binding_buffer returns is, for each output
\* in the session's order, the first prod(shape) elements of its buffer
\* viewed as shape, in a storage of its own: a later write into the buffers
\* does not change a list returned before, and the read leaves the buffers
\* as they are.  Checked under SpecBuf.
C5_ReadBackDetached ==
    held_outputs # None =>
        /\ Len(held_outputs) = Len(SessionOutputs)
        /\ \A k \in 1 .. Len(held_outputs) :
              /\ Elements(storage, held_outputs[k]) = held_values[k]
              /\ \A n \in NameSet : held_outputs[k].ptr # output_buffers[n].ptr
        /\ held_fresh =>
              \A k \in 1 .. Len(held_outputs) :
                  /\ held_outputs[k].shape = io_binding[SessionOutputs[k]].shape
                  /\ held_values[k] = BufferPrefix(k, held_outputs[k].shape)
                  /\ output_buffers[SessionOutputs[k]].numel = prev_numel[SessionOutputs[k]]

\* The caller holds the outputs of an earlier call, and a later bound run
\* has written other values over the elements they were read from.
C5_Witness ==
    /\ bm_status = "ok"
    /\ held_outputs # None
    /\ ~held_fresh
    /\ io_binding # None
    /\ held_outputs[2].shape = <<1, 2>>
    /\ \A k \in 1 .. Len(held_outputs) :
          \A i \in 1 .. Len(held_values[k]) :
              held_values[k][i] # BufferPrefix(k, held_outputs[k].shape)[i]

(***************************************************************************)
(* Claims about get_dummy_inputs, checked under SpecSynth.                 *)
(***************************************************************************)

TotalLen == di_args.past_sequence_length + di_args.sequence_length

\* The columns of a matrix that hold a zero in some row.
ZeroColumns(m) == {c \in 1 .. Len(m[1]) : \E b \in 1 .. Len(m) : m[b][c] = 0}

\* The number of ones among the first n entries of a 0/1 row.
OnesBefore(row, n) == Cardinality({c \in 1 .. n : row[c] = 1})

\* C6 (as claimed): with the attention mask suppressed the call completes for
\* either value of has_position_ids and returns a batch in which
\* attention_mask and position_ids are both absent.
C6_MaskSuppressedCompletes ==
    (di_status # "init" /\ ~di_args.has_attention_mask) =>
        /\ di_status = "returned"
        /\ dummy_inputs.attention_mask = None
        /\ dummy_inputs.position_ids = None

\* C7: the attention mask has shape (batch_size, cache_len + seq_len) and
\* entries in {0, 1}; with a total length of at least 2 exactly one column
\* is zero, in every row, and all other entries are 1; with a total length
\* of 1 the mask is all ones.
C7_AttentionMaskOneZeroColumn ==
    (di_status = "returned" /\ di_args.has_attention_mask) =>
        LET m == dummy_inputs.attention_mask
        IN  /\ Len(m) = di_args.batch_size
            /\ \A b \in 1 .. Len(m) :
                  /\ Len(m[b]) = TotalLen
                  /\ \A c \in 1 .. TotalLen : m[b][c] \in {0, 1}
            /\ IF TotalLen >= 2
               THEN /\ Cardinality(ZeroColumns(m)) = 1
                    /\ \A c \in ZeroColumns(m) : \A b \in 1 .. Len(m) : m[b][c] = 0
               ELSE ZeroColumns(m) = {}

\* A call with two rows whose padding column is not the first one.
C7_Witness ==
    /\ di_status = "returned"
    /\ di_args.has_attention_mask
    /\ di_args.batch_size = 2
    /\ TotalLen >= 2
    /\ dummy_inputs.attention_mask[2][2] = 0

\* C8: position_ids has shape (batch_size, seq_len) and
\* position_ids[b, t] = max(0, sum(attention_mask[b, 0 .. cache_len + t]) - 1);
\* every row is the same.
C8_PositionIdsFromMask ==
    (di_status = "returned" /\ di_args.has_position_ids /\ di_args.has_attention_mask) =>
        LET p == dummy_inputs.position_ids
            m == dummy_inputs.attention_mask
        IN  /\ Len(p) = di_args.batch_size
            /\ \A b \in 1 .. Len(p) :
                  /\ Len(p[b]) = di_args.sequence_length
                  /\ p[b] = p[1]
                  /\ \A t \in 1 .. di_args.sequence_length :
                        LET s == OnesBefore(m[b], di_args.past_sequence_length + t)
                        IN  p[b][t] = IF s - 1 < 0 THEN 0 ELSE s - 1

\* An empty cache with the first column padded: the floor at 0 acts on the
\* first position, and the second position is 0 as well.
C8_Witness ==
    /\ di_status = "returned"
    /\ di_args.has_position_ids
    /\ di_args.has_attention_mask
    /\ di_args.batch_size = 2
    /\ di_args.past_sequence_length = 0
    /\ di_args.sequence_length = 2
    /\ dummy_inputs.attention_mask[1][1] = 0
    /\ dummy_inputs.position_ids[2] = <<0, 0>>

\* C9 (as claimed): input_ids has shape (batch_size, seq_len), no entry is
\* outside [0, vocab_size - 1], and every integer of that closed range,
\* vocab_size - 1 included, is a value an entry may be drawn as.
C9_InputIdsClosedRange ==
    di_status = "returned" =>
        LET ids == dummy_inputs.input_ids
        IN  /\ Len(ids) = di_args.batch_size
            /\ \A b \in 1 .. Len(ids) :
                  /\ Len(ids[b]) = di_args.sequence_length
                  /\ \A t \in 1 .. Len(ids[b]) : ids[b][t] \in 0 .. (di_args.vocab_size - 1)
            /\ randint_range = 0 .. (di_args.vocab_size - 1)

(***************************************************************************)
(* Claims about compare_outputs, checked under SpecCmp.                    *)
(***************************************************************************)

\* The tensors of the reference in the candidate's order.
ReferenceList == <<torch_outputs[1]>> \o torch_outputs[2]

\* Element i of tensor k of the candidate is within tolerance of the
\* reference.
Within(k, i) ==
    LET c == ort_outputs[k][i]
        r == ReferenceList[k][i]
        d == IF c >= r THEN c - r ELSE r - c
        m == IF r >= 0 THEN r ELSE -r
    IN  d <= tolerance.atol + tolerance.rtol * m

\* C10: compare_outputs returns true if and only if every element of the
\* primary output and of every per-layer present tensor satisfies
\* |candidate - reference| <= atol + rtol * |reference|; comparing outputs
\* with themselves at rtol = atol = 0 is true.
C10_CompareIffAllWithin ==
    cmp_status = "returned" =>
        /\ is_all_close = (\A k \in 1 .. Len(ort_outputs) : \A i \in Elems : Within(k, i))
        /\ (ort_outputs = ReferenceList /\ tolerance = [rtol |-> 0, atol |-> 0])
              => is_all_close

\* Only one element of the last layer is out of tolerance, with a relative
\* term that is not zero, and the comparison is false.
C10_Witness ==
    /\ cmp_status = "returned"
    /\ Len(ort_outputs) = 2
    /\ tolerance = [rtol |-> 1, atol |-> 0]
    /\ ort_outputs[1] = torch_outputs[1]
    /\ torch_outputs[2][1] = <<-1, 0>>
    /\ ort_outputs[2] = <<-1, 1>>
    /\ ~is_all_close
    /\ max_abs_diff = <<0>>


(***************************************************************************)
(* Claims about prepare_io_binding, checked under SpecBind.                *)
(***************************************************************************)

\* The bind_input call made under the name, in the last call.
BoundAs(name) ==
    CHOOSE k \in 1 .. Len(pb_binding) : pb_binding[k].name = name

\* The call was given output buffers that hold the first output of the
\* session, so line 437 finds a dtype.
FirstBufferGiven ==
    /\ pb_args.output_buffers # None
    /\ pb_args.first_output \in DOMAIN pb_args.output_buffers

\* What C11 says of every cache tensor but its dtype: past_i is bound under
\* its own name with its own shape, and with its own pointer unless that is
\* 0, when the pointer of input_ids is bound in its place.
PastBoundByPointerRule ==
    /\ \A k \in 1 .. Len(pb_binding) : pb_binding[k].ptr # 0
    /\ pb_inputs.input_ids.ptr # 0
    /\ \A i \in 1 .. Len(pb_inputs.past) :
        LET past_i == pb_inputs.past[i]
            name == "past_" \o ToString(i - 1)
        IN  /\ \E k \in 1 .. Len(pb_binding) : pb_binding[k].name = name
            /\ pb_binding[BoundAs(name)].shape = past_i.shape
            /\ pb_binding[BoundAs(name)].ptr =
                  IF past_i.ptr = 0 THEN pb_inputs.input_ids.ptr ELSE past_i.ptr

\* C11 as the specification states it: prepare_io_binding binds no null data
\* pointer for an input and does not fail on an empty cache; a cache tensor
\* that reports pointer 0 is bound with the non-null pointer of input_ids
\* and with its own name, dtype and shape; a cache tensor with a non-null
\* pointer is bound with its own.  The code binds the float type of the
\* first output buffer in place of the dtype of the cache tensor.
C11_PastBoundWithOwnDtype ==
    /\ (pb_status # "init" /\ pb_args.past_sequence_length = 0 /\ FirstBufferGiven)
            => pb_status = "bound"
    /\ pb_status = "bound" =>
        /\ PastBoundByPointerRule
        /\ \A i \in 1 .. Len(pb_inputs.past) :
            pb_binding[BoundAs("past_" \o ToString(i - 1))].dtype = pb_inputs.past[i].dtype

\* C11, amended: given output buffers that hold the first output of the
\* session, prepare_io_binding binds no null data pointer for an input and
\* does not fail on an empty cache; a cache tensor that reports pointer 0 is
\* bound with the non-null pointer of input_ids and with its own name and
\* shape; a cache tensor with a non-null pointer is bound with its own; the
\* dtype bound for every cache tensor is float16 when the first output
\* buffer is float16 and float32 otherwise, whatever the dtype of the cache
\* tensor.  Without such buffers the call ends in the TypeError or KeyError
\* of line 437 with no cache tensor bound.
C11_NoNullInputPointer ==
    /\ (pb_status # "init" /\ pb_args.past_sequence_length = 0 /\ FirstBufferGiven)
            => pb_status = "bound"
    /\ pb_status = "bound" =>
        /\ FirstBufferGiven
        /\ PastBoundByPointerRule
        /\ \A i \in 1 .. Len(pb_inputs.past) :
            pb_binding[BoundAs("past_" \o ToString(i - 1))].dtype =
                IF pb_args.output_buffers[pb_args.first_output].dtype = "float16"
                THEN "float16" ELSE "float32"
    /\ (pb_status # "init" /\ ~FirstBufferGiven) =>
        /\ pb_status \in {"TypeError", "KeyError"}
        /\ pb_status = "TypeError" <=> pb_args.output_buffers = None
        /\ \A k \in 1 .. Len(pb_binding) : pb_binding[k].name = "input_ids"

\* C11 witness: a call with an empty float32 cache and float16 output
\* buffers has bound a cache tensor that reports pointer 0 with the pointer
\* of input_ids and as float16, next to position_ids.
C11_Witness ==
    /\ pb_status = "bound"
    /\ pb_args.past_sequence_length = 0
    /\ Len(pb_inputs.past) = 2
    /\ pb_inputs.past[2].shape[4] = 0
    /\ pb_inputs.past[2].ptr = 0
    /\ pb_inputs.past[2].dtype = "float32"
    /\ pb_args.output_buffers[pb_args.first_output].dtype = "float16"
    /\ pb_binding[BoundAs("past_1")].ptr = pb_inputs.input_ids.ptr
    /\ pb_binding[BoundAs("past_1")].dtype = "float16"
    /\ pb_inputs.position_ids # None
    /\ pb_inputs.input_ids.shape[1] = 2


(***************************************************************************)
(* Claims about export_onnx, checked under SpecExport.                     *)
(***************************************************************************)

\* The forward pass of the last call returned 1 + num_layers outputs: the
\* primary output and one cache tensor per layer, and nothing else.
CountMatches ==
    /\ ex_outputs.extras = 0
    /\ 1 + Len(ex_outputs.presents) = 1 + ex_args.config.n_layer

\* C12: export_onnx calls torch.onnx.export at most once per call and only
\* after the count of the outputs of the forward pass has been found to be
\* 1 + num_layers; when the count does not match, the call ends on the
\* assertion, the export is not called and no graph file is written.
C12_ExportOnlyAfterCountValidated ==
    /\ ex_exports <= 1
    /\ ex_file => ex_exports = 1
    /\ ex_exports = 1 => (ex_outputs # None /\ CountMatches)
    /\ (ex_outputs # None /\ ~CountMatches) =>
          (ex_status = "AssertionError" /\ ex_exports = 0 /\ ~ex_file)

\* C12 witness: a call for a model of two layers whose forward pass
\* returned three outputs has called the export once and written the file.
C12_Witness ==
    /\ ex_status = "exported"
    /\ ex_args.config.n_layer = 2
    /\ Len(ex_outputs.presents) = 2
    /\ ex_exports = 1
    /\ ex_file


(***************************************************************************)
(* Claims about get_output_shapes, checked under SpecShapes.               *)
(***************************************************************************)

\* The name of the primary output of a model variant.
VariantOutput(model_class) == IF model_class = "GPT2Model" THEN "last_state" ELSE "logits"

\* C13: get_output_shapes returns exactly 1 + num_layers entries: the
\* primary output, 'logits' of shape (batch, seq_len, vocab_size) or
\* 'last_state' of shape (batch, seq_len, hidden_size) by model variant, and
\* a present_i for every layer i of shape (2, batch, num_heads, cache_len +
\* seq_len, hidden_size / num_heads); with cache_len = 0 the cache axis is
\* seq_len, and batch 2, cache_len 0, seq_len 2, 2 heads, hidden size 4, 2
\* layers and vocabulary 50 give logits (2,2,50) and two present_i of
\* (2,2,2,2,2).
C13_OutputShapes ==
    os_status = "returned" =>
        LET a == os_args
            c == os_args.config
            primary == VariantOutput(a.model_class)
        IN  /\ Cardinality(DOMAIN output_shapes) = 1 + c.n_layer
            /\ primary \in DOMAIN output_shapes
            /\ output_shapes[primary] =
                  <<a.batch_size, a.sequence_length,
                    IF primary = "logits" THEN c.vocab_size ELSE c.hidden_size>>
            /\ \A i \in 0 .. c.n_layer - 1 :
                  /\ ("present_" \o ToString(i)) \in DOMAIN output_shapes
                  /\ output_shapes["present_" \o ToString(i)] =
                        <<2, a.batch_size, c.num_attention_heads,
                          a.past_sequence_length + a.sequence_length,
                          c.hidden_size \div c.num_attention_heads>>
                  /\ a.past_sequence_length = 0 =>
                        output_shapes["present_" \o ToString(i)][4] = a.sequence_length
            /\ (/\ a.batch_size = 2 /\ a.past_sequence_length = 0 /\ a.sequence_length = 2
                /\ c = [num_attention_heads |-> 2, hidden_size |-> 4, n_layer |-> 2,
                        vocab_size |-> 50]
                /\ primary = "logits")
               => output_shapes = [n \in {"logits", "present_0", "present_1"} |->
                                      IF n = "logits" THEN <<2, 2, 50>>
                                      ELSE <<2, 2, 2, 2, 2>>]

\* C13 witness: the call of the end-to-end scenario has returned its three
\* entries.
C13_Witness ==
    /\ os_status = "returned"
    /\ os_args.batch_size = 2
    /\ os_args.past_sequence_length = 0
    /\ os_args.sequence_length = 2
    /\ os_args.model_class = "GPT2LMHeadModel"
    /\ os_args.config = [num_attention_heads |-> 2, hidden_size |-> 4, n_layer |-> 2,
                         vocab_size |-> 50]
    /\ output_shapes["logits"] = <<2, 2, 50>>
    /\ output_shapes["present_1"] = <<2, 2, 2, 2, 2>>


(***************************************************************************)
(* Claims about the forward call of the wrappers, checked under            *)
(* SpecForward.                                                            *)
(***************************************************************************)

\* C14 (as claimed): for every model variant of MODEL_CLASSES, when the
\* wrapped model returned key and value of a layer as two tensors, forward
\* returns the primary output and a list of exactly num_layers entries, each
\* one tensor with a new leading axis of size 2 that holds the key at index
\* 0 and the value at index 1.
C14_ForwardStacksKeyValue ==
    (fw_status = "returned" /\ fw_args.style = "separate") =>
        /\ fw_result.primary = fw_args.result.primary
        /\ Len(fw_result.presents) = fw_args.n_layer
        /\ \A i \in 1 .. Len(fw_result.presents) :
            LET key == fw_args.result.presents[i].items[1]
                value == fw_args.result.presents[i].items[2]
            IN  /\ fw_result.presents[i].kind = "tensor"
                /\ fw_result.presents[i].shape = <<2>> \o key.shape
                /\ fw_result.presents[i].data = key.data \o value.data


\* The axis a declaration gives the name of a size to.
AxisOf(axes, label) == CHOOSE d \in DOMAIN axes : axes[d] = label

\* Dimensions to tell the axes of a shape apart: no two sizes agree, and
\* none is a size of the configuration.
Probe == [batch |-> 3, past |-> 5, seq |-> 7]

LabelSize(label) ==
    CASE label = "batch_size" -> Probe.batch
      [] label = "seq_len" -> Probe.seq
      [] label = "past_seq_len" -> Probe.past
      [] label = "total_seq_len" -> Probe.past + Probe.seq

\* The shape the tensor of the name has for the probe dimensions, from
\* get_dummy_inputs for an input and from get_output_shapes for an output.
ProbeShape(name) ==
    LET inputs == DummyTensors(Probe.batch, Probe.past, Probe.seq, 1, FALSE, TRUE, TRUE)
        present == <<2, Probe.batch, ex_args.config.num_attention_heads,
                     Probe.past + Probe.seq,
                     ex_args.config.hidden_size \div ex_args.config.num_attention_heads>>
    IN  CASE name = "input_ids" -> inputs.input_ids.shape
          [] name = "position_ids" -> inputs.position_ids.shape
          [] name = "attention_mask" -> inputs.attention_mask.shape
          [] name \in SeqToSet(PastNames(ex_args.config.n_layer)) -> inputs.past[1].shape
          [] name \in SeqToSet(PresentNames(ex_args.config.n_layer)) -> present
          [] OTHER -> PrimaryShape(ex_args.model_class, Probe.batch, Probe.seq,
                                   ex_args.config)

\* The axes declared for the name are those of its shape that hold the
\* batch size or a sequence length, each under the name of its size.
AxesMatchShape(name) ==
    /\ name \in DOMAIN ex_decl.dynamic_axes
    /\ \A d \in 0 .. Len(ProbeShape(name)) - 1 :
          IF d \in DOMAIN ex_decl.dynamic_axes[name]
          THEN ProbeShape(name)[d + 1] = LabelSize(ex_decl.dynamic_axes[name][d])
          ELSE ProbeShape(name)[d + 1] \notin
                  {Probe.batch, Probe.seq, Probe.past, Probe.past + Probe.seq}

AllResizableDeclared ==
    \A name \in SeqToSet(ex_decl.input_names) \cup SeqToSet(ex_decl.output_names) :
        AxesMatchShape(name)

\* C15 (as claimed): in the dynamic axes export_onnx hands to the export, the batch axis
\* and the sequence axes of every input and output are marked resizable, and
\* the index of the cache-length axis of each past_i differs by one from
\* that of the matching present_i.
C15_CacheAxisDiffersByOne ==
    ex_status = "exported" =>
        /\ AllResizableDeclared
        /\ \A i \in 1 .. ex_args.config.n_layer :
            LET past_axis == AxisOf(ex_decl.dynamic_axes[PastNames(i)[i]], "past_seq_len")
                present_axis == AxisOf(ex_decl.dynamic_axes[PresentNames(i)[i]],
                                       "total_seq_len")
            IN  past_axis - present_axis \in {-1, 1}

\* C15 (amended): the batch axis and the sequence axes of every input and
\* output are marked resizable, and the cache-length axis of each past_i has
\* the same index, 3, as that of the matching present_i; the two differ in
\* the name of the size, past_seq_len and total_seq_len.
C15_CacheAxisSameIndex ==
    ex_status = "exported" =>
        /\ AllResizableDeclared
        /\ \A i \in 1 .. ex_args.config.n_layer :
            LET past_axes == ex_decl.dynamic_axes[PastNames(i)[i]]
                present_axes == ex_decl.dynamic_axes[PresentNames(i)[i]]
            IN  /\ \E d \in DOMAIN past_axes : past_axes[d] = "past_seq_len"
                /\ \E d \in DOMAIN present_axes : present_axes[d] = "total_seq_len"
                /\ AxisOf(past_axes, "past_seq_len") = 3
                /\ AxisOf(present_axes, "total_seq_len") = 3

\* C15 witness: an export of a model of two layers with position_ids and
\* attention_mask has declared the axes of its four inputs and three outputs.
C15_Witness ==
    /\ ex_status = "exported"
    /\ ex_args.config.n_layer = 2
    /\ ex_args.has_position_ids
    /\ ex_args.has_attention_mask
    /\ DOMAIN ex_decl.dynamic_axes =
          {"input_ids", "position_ids", "attention_mask", "past_0", "past_1",
           "logits", "present_0", "present_1"}
    /\ ex_decl.dynamic_axes["past_1"] = (1 :> "batch_size" @@ 3 :> "past_seq_len")
    /\ ex_decl.dynamic_axes["present_1"] = (1 :> "batch_size" @@ 3 :> "total_seq_len")


\* C16 (as claimed): for every model variant of MODEL_CLASSES and every
\* configuration, a hidden size equal to the vocabulary size included, the
\* name export_onnx derives for the primary output from its last axis is the
\* name MODEL_CLASSES and get_output_shapes use for the variant, so that
\* every output name of the exported graph is a key of the output shapes,
\* and of the buffers made from them.
C16_ExportedNamesAreShapeKeys ==
    ex_status = "exported" =>
        LET shapes == GetOutputShapes(1, 1, 1, ex_args.config, ex_args.model_class)
        IN  /\ ex_decl.output_names[1] = MODEL_CLASSES[ex_args.model_class].output_name
            /\ \A k \in 1 .. Len(ex_decl.output_names) :
                  ex_decl.output_names[k] \in DOMAIN shapes

====
